---- MODULE Spec2Model ----
(***************************************************************************)
(* Model of the CAS statement parser (src/pdf_parser.py) and of its HTTP    *)
(* handler (src/api.py): the parse failure mapping, the rate limiter and   *)
(* the life of the temporary upload file.                                  *)
(*                                                                         *)
(* Representation.                                                         *)
(*   - A line of text is the sequence of its whitespace separated tokens   *)
(*     (what line.split() returns); a text is the sequence of its lines    *)
(*     (what text.split('\n') returns).  Tokens are strings of a small     *)
(*     vocabulary; every regular expression and substring test of the      *)
(*     source is an operator over tokens, tabulated for the vocabulary.    *)
(*   - A float is an integer number of hundredths (1,000.00 is 100000).    *)
(*   - An optional value (Python None or a value) is a sequence of length  *)
(*     0 or 1: None is <<>> and a value v is <<v>>.                        *)
(*   - An exception is a record [type, msg]; a message is the sequence of  *)
(*     the parts an f-string concatenates.                                 *)
(***************************************************************************)
EXTENDS Integers, Sequences, FiniteSets, TLC

VARIABLES
    doc,        \* the uploaded PDF as the two PDF libraries see it
    pc,         \* position of the request in parse_cas / CASParser
    text,       \* the text built by _extract_text, as its list of lines
    exc,        \* the exception in flight (or that ended the parse), optional
    loc,        \* the local variables of _extract_mutual_funds
    cas_data,   \* self.cas_data, the record graph under construction
    response,   \* what parse_cas answers or extract_content returns, optional
    other,      \* a second request in progress, suspended: its state, optional
    requests,   \* the parse_cas calls in progress on the event loop, by request
    request_counts,         \* the dictionary request_counts of src/api.py
    clock,                  \* the minute datetime.now() falls in
    temp_files,             \* the temporary paths that exist under TEMP_DIR
    RATE_LIMIT_PER_MINUTE   \* the setting read from the environment at import

\* The state of the HTTP layer.
service == <<requests, request_counts, clock, temp_files, RATE_LIMIT_PER_MINUTE>>

vars == <<doc, pc, text, exc, loc, cas_data, response, other, service>>

\* ------------------------------------------------------------------ bounds
\* Longest document body, in lines.
MaxLines == 4

\* ------------------------------------------------------------ optionals
None == <<>>
Some(v) == <<v>>
IsSet(o) == o # <<>>
Get(o) == o[1]

\* ---------------------------------------------------------- sequences
EmptyLine == <<>>

RECURSIVE SeqsUpTo(_, _)
\* All sequences over S of length at most n.
SeqsUpTo(S, n) ==
    IF n = 0 THEN {<<>>}
    ELSE LET shorter == SeqsUpTo(S, n - 1)
         IN  shorter \cup {Append(s, x) : s \in {t \in shorter : Len(t) = n - 1}, x \in S}

\* w occurs in s as a run of consecutive elements starting at position k.
OccursAt(w, s, k) ==
    /\ k >= 1
    /\ k + Len(w) - 1 <= Len(s)
    /\ \A m \in 1..Len(w) : s[k + m - 1] = w[m]

\* The Python test  'w1 w2 ..' in line  for a phrase of whole tokens.
Occurs(w, s) == \E k \in 1..Len(s) : OccursAt(w, s, k)

Min(a, b) == IF a <= b THEN a ELSE b

RECURSIVE SumSeq(_)
SumSeq(s) == IF s = <<>> THEN 0 ELSE s[1] + SumSeq(Tail(s))

RECURSIVE Flatten(_)
\* Concatenation of a sequence of sequences.
Flatten(ss) == IF ss = <<>> THEN <<>> ELSE ss[1] \o Flatten(Tail(ss))

\* ------------------------------------------------------------ vocabulary
\* The tokens the lines below are made of.
Vocabulary ==
    {",", "-", "-1.000", "-150.00", "0.00", "0.000", "01-Apr-2024",
    "02-Apr-2024", "1,000.00", "1.5.0", "1.50", "10.500", "120.500",
    "123/45", "150.00", "31-Feb-2024", "45.6700", "5,000.00", "5502.83",
    "678", "95.20", "999.60", ":", "@", "ABCDE1234F", "ARN-0845",
    "Account", "Advisor:", "Age", "Axis", "Balance", "Balance:",
    "Bluechip", "CAMS", "Closing", "Computer", "Consolidated", "Cost:",
    "DOE", "Dividend", "Duty", "Folio", "Fund", "HDFC", "INF123", "INF456",
    "ISIN:", "In", "JANE", "JOHN", "KFINTECH", "Limited", "Management",
    "Mutual", "No:", "Opening", "Out", "PAN:", "Payout", "Purchase", "ROE",
    "Redemption", "Registrar", "Reinvestment", "Rs.", "SIP", "Services",
    "Stamp", "Statement", "Switch", "Unit", "XYZ", "abc", "for", "from",
    "period", "the", "to"}

\* float(s.replace(',', '')) in hundredths, for every string s of the vocabulary (or
\* captured from one by a pattern below) that float() converts; on any other string
\* float() raises ValueError.
FloatTable ==
    ("-1.000" :> -100 @@ "-150.00" :> -15000 @@ "0" :> 0 @@ "0.00" :> 0 @@
    "0.000" :> 0 @@ "01" :> 100 @@ "02" :> 200 @@ "0845" :> 84500 @@
    "1" :> 100 @@ "1,000.00" :> 100000 @@ "1.000" :> 100 @@ "1.5" :> 150 @@
    "1.50" :> 150 @@ "10.500" :> 1050 @@ "120.500" :> 12050 @@
    "123" :> 12300 @@ "1234" :> 123400 @@ "150.00" :> 15000 @@
    "2024" :> 202400 @@ "31" :> 3100 @@ "45" :> 4500 @@
    "45.6700" :> 4567 @@ "456" :> 45600 @@ "5" :> 500 @@
    "5,000.00" :> 500000 @@ "5502.83" :> 550283 @@ "678" :> 67800 @@
    "95.20" :> 9520 @@ "999.60" :> 99960)

\* re.findall(r'[\d,]+\.?\d*', tok): the matches inside one token (a match never
\* spans whitespace); tokens without a match are absent.
FindallTable ==
    ("," :> <<",">> @@ "-1.000" :> <<"1.000">> @@
    "-150.00" :> <<"150.00">> @@ "0.00" :> <<"0.00">> @@
    "0.000" :> <<"0.000">> @@ "01-Apr-2024" :> <<"01", "2024">> @@
    "02-Apr-2024" :> <<"02", "2024">> @@ "1,000.00" :> <<"1,000.00">> @@
    "1.5.0" :> <<"1.5", "0">> @@ "1.50" :> <<"1.50">> @@
    "10.500" :> <<"10.500">> @@ "120.500" :> <<"120.500">> @@
    "123/45" :> <<"123", "45">> @@ "150.00" :> <<"150.00">> @@
    "31-Feb-2024" :> <<"31", "2024">> @@ "45.6700" :> <<"45.6700">> @@
    "5,000.00" :> <<"5,000.00">> @@ "5502.83" :> <<"5502.83">> @@
    "678" :> <<"678">> @@ "95.20" :> <<"95.20">> @@
    "999.60" :> <<"999.60">> @@ "ABCDE1234F" :> <<"1234">> @@
    "ARN-0845" :> <<"0845">> @@ "INF123" :> <<"123">> @@
    "INF456" :> <<"456">>)

\* re.match(r'[\d,]+\.?\d*', tok): the group the cost pattern captures at the start
\* of a token.
CostTable ==
    ("," :> "," @@ "0.00" :> "0.00" @@ "0.000" :> "0.000" @@
    "01-Apr-2024" :> "01" @@ "02-Apr-2024" :> "02" @@
    "1,000.00" :> "1,000.00" @@ "1.5.0" :> "1.5" @@ "1.50" :> "1.50" @@
    "10.500" :> "10.500" @@ "120.500" :> "120.500" @@ "123/45" :> "123" @@
    "150.00" :> "150.00" @@ "31-Feb-2024" :> "31" @@
    "45.6700" :> "45.6700" @@ "5,000.00" :> "5,000.00" @@
    "5502.83" :> "5502.83" @@ "678" :> "678" @@ "95.20" :> "95.20" @@
    "999.60" :> "999.60")

\* re.match(r'[\d.]+', tok): the group the dividend pattern captures at the start of
\* a token.
RateTable ==
    ("0.00" :> "0.00" @@ "0.000" :> "0.000" @@ "01-Apr-2024" :> "01" @@
    "02-Apr-2024" :> "02" @@ "1,000.00" :> "1" @@ "1.5.0" :> "1.5.0" @@
    "1.50" :> "1.50" @@ "10.500" :> "10.500" @@ "120.500" :> "120.500" @@
    "123/45" :> "123" @@ "150.00" :> "150.00" @@ "31-Feb-2024" :> "31" @@
    "45.6700" :> "45.6700" @@ "5,000.00" :> "5" @@
    "5502.83" :> "5502.83" @@ "678" :> "678" @@ "95.20" :> "95.20" @@
    "999.60" :> "999.60")

\* Tokens that re.match(r'\d{2}-[A-Za-z]{3}-\d{4}', tok) accepts.
DatePrefixed ==
    {"01-Apr-2024", "02-Apr-2024", "31-Feb-2024"}

\* datetime.strptime(tok, '%d-%b-%Y') as <<year, month, day>>; on any other token
\* strptime raises ValueError.
StrptimeTable ==
    ("01-Apr-2024" :> <<2024, 4, 1>> @@ "02-Apr-2024" :> <<2024, 4, 2>>)

\* datetime.strftime("%Y-%m-%d") of the dates strptime gives.
StrftimeTable ==
    (<<2024, 4, 1>> :> "2024-04-01" @@ <<2024, 4, 2>> :> "2024-04-02")

\* The file names a statement comes under, with what
\* re.search(r"_(\d{14}\d*)\.", pdf_path) and the slices of its group give as
\* f"{year}-{month}-{day}T{hour}:{minute}:{second}", optional.
GeneratedAtTable ==
    ("statement.pdf" :> <<>> @@
     "CAS_CP188509986_2106202505373.pdf" :> <<>> @@
     "CAS_01012004-21062025_CP188509986_21062025053730617.pdf" :> <<"2106-20-25T05:37:30">>)

\* re.match(r'INF\w+', tok): the ISIN a token starts with.
IsinTable ==
    ("INF123" :> "INF123" @@ "INF456" :> "INF456")

\* re.search(r'ARN-([\d]+)', tok), as the advisor code f"ARN-{group(1)}".
ArnTable ==
    ("ARN-0845" :> "ARN-0845")

\* re.match(r'[A-Z]{5}\d{4}[A-Z]', tok): the PAN a token starts with.
PanTable ==
    ("ABCDE1234F" :> "ABCDE1234F")

\* Tokens made only of the characters [\w/-] of the folio pattern.
FolioWord ==
    {"-", "01-Apr-2024", "02-Apr-2024", "123/45", "31-Feb-2024", "678",
    "ABCDE1234F", "ARN-0845", "Account", "Age", "Axis", "Balance",
    "Bluechip", "CAMS", "Closing", "Computer", "Consolidated", "DOE",
    "Dividend", "Duty", "Folio", "Fund", "HDFC", "INF123", "INF456", "In",
    "JANE", "JOHN", "KFINTECH", "Limited", "Management", "Mutual",
    "Opening", "Out", "Payout", "Purchase", "ROE", "Redemption",
    "Registrar", "Reinvestment", "SIP", "Services", "Stamp", "Statement",
    "Switch", "Unit", "XYZ", "abc", "for", "from", "period", "the", "to"}

\* The non-empty prefix in [\w/-]+ of the other tokens.
FolioPrefixTable ==
    ("-1.000" :> "-1" @@ "-150.00" :> "-150" @@ "0.00" :> "0" @@
    "0.000" :> "0" @@ "1,000.00" :> "1" @@ "1.5.0" :> "1" @@
    "1.50" :> "1" @@ "10.500" :> "10" @@ "120.500" :> "120" @@
    "150.00" :> "150" @@ "45.6700" :> "45" @@ "5,000.00" :> "5" @@
    "5502.83" :> "5502" @@ "95.20" :> "95" @@ "999.60" :> "999" @@
    "Advisor:" :> "Advisor" @@ "Balance:" :> "Balance" @@
    "Cost:" :> "Cost" @@ "ISIN:" :> "ISIN" @@ "No:" :> "No" @@
    "PAN:" :> "PAN" @@ "Rs." :> "Rs")

\* ---------------------------------------------------------------- lines

MarkerHead ==
    <<"CAMS", "-", "Consolidated", "Account", "Statement">>

MarkerFoot ==
    <<"Computer", "Age", "Management", "Services", "Limited">>

NameLine ==
    <<"JOHN", "DOE">>

PanLine ==
    <<"PAN:", "ABCDE1234F">>

NamePanLine ==
    <<"JANE", "ROE", "PAN:", "ABCDE1234F">>

FolioLine ==
    <<"Folio", "No:", "123/45">>

Folio2Line ==
    <<"Folio", "No:", "678">>

AmcLine ==
    <<"HDFC", "Mutual", "Fund">>

SchemeLine ==
    <<"Axis", "Bluechip", "Fund">>

AdvisorLine ==
    <<"Advisor:", "ARN-0845">>

RtaLine ==
    <<"Registrar", ":", "KFINTECH">>

IsinLine ==
    <<"ISIN:", "INF123">>

Isin2Line ==
    <<"ISIN:", "INF456">>

IsinOtherLine ==
    <<"ISIN:", "XYZ">>

BalLine ==
    <<"Closing", "Unit", "Balance:", "120.500", "45.6700", "5502.83">>

BalCostLine ==
    <<"Closing", "Unit", "Balance:", "120.500", "45.6700", "5502.83",
    "Cost:", "Rs.", "5,000.00">>

BalLossLine ==
    <<"Closing", "Unit", "Balance:", "10.500", "95.20", "999.60", "Cost:",
    "Rs.", "1,000.00">>

BalZeroCostLine ==
    <<"Closing", "Unit", "Balance:", "10.500", "95.20", "999.60", "Cost:",
    "Rs.", "0.00">>

BalDateLine ==
    <<"Closing", "Unit", "Balance:", "120.500", "01-Apr-2024", "45.6700",
    "5502.83">>

BalShortLine ==
    <<"Closing", "Unit", "Balance:", "120.500">>

BalCommaLine ==
    <<"Closing", "Unit", "Balance:", "120.500", ",", "5502.83">>

PeriodLine ==
    <<"Statement", "for", "the", "period", "from", "01-Apr-2024", "to",
    "02-Apr-2024">>

PeriodBadLine ==
    <<"Statement", "for", "the", "period", "from", "01-Apr-2024", "to",
    "31-Feb-2024">>

TxnSip ==
    <<"01-Apr-2024", "Purchase", "-", "SIP", "1,000.00", "10.500", "95.20">>

TxnPurRate ==
    <<"02-Apr-2024", "Purchase", "@", "Rs.", "1.50", "1,000.00", "10.500",
    "95.20">>

TxnRed ==
    <<"02-Apr-2024", "Redemption", "-150.00", "-1.000", "95.20">>

TxnDiv ==
    <<"02-Apr-2024", "Dividend", "Payout", "@", "Rs.", "1.50", "150.00",
    "0.000", "95.20">>

TxnDivReinv ==
    <<"01-Apr-2024", "Dividend", "Reinvestment", "150.00", "10.500",
    "95.20">>

TxnDivBadRate ==
    <<"02-Apr-2024", "Dividend", "@", "Rs.", "1.5.0", "150.00", "0.000",
    "95.20">>

TxnSwitchOut ==
    <<"01-Apr-2024", "Switch", "Out", "1,000.00", "10.500", "95.20">>

TxnSwitchIn ==
    <<"02-Apr-2024", "Switch", "In", "1,000.00", "10.500", "95.20">>

TxnSwitchRed ==
    <<"02-Apr-2024", "Switch", "In", "Redemption", "1,000.00", "10.500",
    "95.20">>

TxnMisc ==
    <<"01-Apr-2024", "Stamp", "Duty", "0.00", "0.000", "95.20">>

TxnBadNum ==
    <<"01-Apr-2024", "Purchase", "abc", "10.500", "95.20">>

TxnBadDate ==
    <<"31-Feb-2024", "Purchase", "1,000.00", "10.500", "95.20">>

TxnShort ==
    <<"01-Apr-2024", "Opening", "Balance">>

\* ------------------------------------------------------ pattern operators
\* float(s.replace(',', '')): defined where float() succeeds.
CanFloat(s) == s \in DOMAIN FloatTable
ToFloat(s) == FloatTable[s]

\* The Python test  'word' in line  for a keyword that no token of the
\* vocabulary contains as a proper substring.
HasWord(w, line) == \E k \in 1..Len(line) : line[k] = w

\* re.findall(r'[\d,]+\.?\d*', line)
Findall(line) ==
    Flatten([k \in 1..Len(line) |->
                IF line[k] \in DOMAIN FindallTable THEN FindallTable[line[k]] ELSE <<>>])

\* The positions k where  <anchor tokens> <token accepted by table>  starts in
\* line: a pattern  anchor\s*(group)  whose group begins the next token.
AnchoredAt(anchor, table, line) ==
    {k \in 1..Len(line) :
        /\ OccursAt(anchor, line, k)
        /\ k + Len(anchor) <= Len(line)
        /\ line[k + Len(anchor)] \in DOMAIN table}

SetMin(S) == CHOOSE x \in S : \A y \in S : x <= y

\* re.search(anchor\s*(group), line).group(1), optional: leftmost match.
SearchGroup(anchor, table, line) ==
    LET at == AnchoredAt(anchor, table, line)
    IN  IF at = {} THEN None ELSE Some(table[line[SetMin(at) + Len(anchor)]])

\* re.search(r'ISIN:\s*(INF\w+)', line).group(1), optional
IsinMatch(line) == SearchGroup(<<"ISIN:">>, IsinTable, line)

\* re.search(r'Cost:\s*Rs\.\s*([\d,]+\.?\d*)', balance_line).group(1), optional
CostMatch(line) == SearchGroup(<<"Cost:", "Rs.">>, CostTable, line)

\* re.search(r'@\s*Rs\.\s*([\d.]+)', desc).group(1), optional
DividendMatch(desc) == SearchGroup(<<"@", "Rs.">>, RateTable, desc)

\* re.search(r'PAN:\s*([A-Z]{5}\d{4}[A-Z])', line).group(1), optional
PanMatch(line) == SearchGroup(<<"PAN:">>, PanTable, line)

\* re.search(r'ARN-([\d]+)', line), as f"ARN-{group(1)}", optional
AdvisorMatch(line) ==
    LET at == {k \in 1..Len(line) : line[k] \in DOMAIN ArnTable}
    IN  IF at = {} THEN None ELSE Some(ArnTable[line[SetMin(at)]])

RECURSIVE FolioRun(_)
\* The run of [\w\s/-] characters at the start of a token sequence, stripped:
\* whole tokens while they are made of such characters, then the prefix of
\* the first token that is not.
FolioRun(toks) ==
    IF toks = <<>> THEN <<>>
    ELSE IF toks[1] \in FolioWord THEN <<toks[1]>> \o FolioRun(Tail(toks))
    ELSE IF toks[1] \in DOMAIN FolioPrefixTable THEN <<FolioPrefixTable[toks[1]]>>
    ELSE <<>>

\* re.search(r'Folio No:\s*([\w\s/-]+)', line).group(1).strip(), optional.
\* The group needs one character at least: the pattern matches when
\* anything, were it only a blank, follows 'Folio No:'.
FolioMatch(line) ==
    LET at == {k \in 1..Len(line) :
                  OccursAt(<<"Folio", "No:">>, line, k) /\ k + 2 <= Len(line)}
    IN  IF at = {} THEN None
        ELSE Some(FolioRun(SubSeq(line, SetMin(at) + 2, Len(line))))

\* re.match(r'\d{2}-[A-Za-z]{3}-\d{4}', line.strip())
DateLine(line) == Len(line) >= 1 /\ line[1] \in DatePrefixed

\* datetime.strptime(tok, '%d-%b-%Y') succeeds
CanStrptime(tok) == tok \in DOMAIN StrptimeTable

\* ------------------------------------------------------------ exceptions
MsgInvalidPAN ==
    "Invalid PAN number. For CAMS CAS, use your PAN number as the password."

MsgNotCAMS ==
    "This appears to be not a CAMS CAS file. Please ensure you're uploading a CAMS Consolidated Account Statement."

MsgNoText ==
    "No text could be extracted from the PDF. Please ensure this is a valid CAMS CAS PDF."

\* Messages of exceptions raised by the libraries the parser calls.
LibReadMsg == "EOF marker not found"
LibPasswordMsg == "Incorrect password"
LibSyntaxMsg == "No /Root object! - Is this really a PDF?"
LibTypeMsg == "unsupported operand type(s) for +: 'NoneType' and 'str'"
LibStrptimeMsg == "day is out of range for month"
LibFloatMsg == "could not convert string to float: ''"

LibraryMessages ==
    {LibReadMsg, LibPasswordMsg, LibSyntaxMsg, LibTypeMsg, LibStrptimeMsg, LibFloatMsg}

Exception(type, parts) == [type |-> type, msg |-> parts]
ValueError(parts) == Exception("ValueError", parts)

\* "password" in str(e).lower()
MentionsPassword(e) ==
    \E k \in 1..Len(e.msg) : e.msg[k] \in {MsgInvalidPAN, LibPasswordMsg}

\* ------------------------------------------------------------- documents
\* What PdfReader makes of the file: not encrypted, encrypted with decrypt()
\* returning true, returning false or raising, or a file it cannot read.
ReaderOutcomes == {"plain", "decrypt_ok", "decrypt_false", "decrypt_raises", "unreadable"}

\* What pdfplumber makes of it: the text of the pages, an exception whose
\* message names the password, another exception, or a page whose
\* extract_text() is None.
PlumberOutcomes == {"pages", "raises_password", "raises_other", "page_none"}

\* The three format markers of _extract_text; the third is not in the
\* vocabulary and never occurs.
Markers ==
    {<<"CAMS", "-", "Consolidated", "Account", "Statement">>,
     <<"Computer", "Age", "Management", "Services", "Limited">>,
     <<"CAMS", "Financial", "Information", "Services">>}

\* any(marker in text for marker in [...])
HasMarker(lines) ==
    \E k \in 1..Len(lines) : \E m \in Markers : Occurs(m, lines[k])

\* not text.strip()
IsBlank(lines) == \A k \in 1..Len(lines) : lines[k] = EmptyLine

\* The text _extract_text builds: every page's text followed by "\n", as the
\* list text.split('\n') gives; the last newline leaves an empty last line.
PagesText(d) == d.lines \o <<EmptyLine>>

\* The ways a body of lines sits in a statement: under the statement's header
\* line, above its footer line, or with neither.
Framings(b) == {b, <<MarkerHead>> \o b, b \o <<MarkerFoot>>}

\* Documents that both libraries open, with a body of at most MaxLines
\* lines of lib.
ReadableDocs(lib) ==
    {[reader |-> "decrypt_ok", plumber |-> "pages", lines |-> l] :
        l \in UNION {Framings(b) : b \in SeqsUpTo(lib, MaxLines)}}

\* Every combination of what the two libraries can make of a file, for an
\* empty document and for a one-line statement.
OutcomeDocs ==
    {[reader |-> r, plumber |-> p, lines |-> l] :
        r \in ReaderOutcomes, p \in PlumberOutcomes, l \in {<<>>, <<MarkerHead>>}}

\* ------------------------------------------------------------ data model
\* Gain, AdditionalInfo, MutualFundScheme, Transaction, InvestorInfo, Meta,
\* PortfolioSummary and CASData with the fields the parser uses.
NewGain == [absolute |-> None, percentage |-> None]

NewAdditionalInfo == [advisor |-> None, rta |-> None, rta_code |-> None]

MutualFundScheme(folio_number, amc, name, isin) ==
    [folio_number |-> folio_number, amc |-> amc, name |-> name, isin |-> isin,
     units |-> 0, nav |-> 0, value |-> 0, cost |-> None,
     gain |-> NewGain, additional_info |-> NewAdditionalInfo]

Transaction(folio_number, amc, scheme_name, date, description, amount, units, nav) ==
    [folio_number |-> folio_number, amc |-> amc, scheme_name |-> scheme_name,
     date |-> date, description |-> description,
     amount |-> amount, units |-> units, nav |-> nav,
     type |-> None, dividend_rate |-> None]

NewInvestorInfo == [name |-> <<>>, pan |-> <<>>]

NewMeta == [statement_period |-> "", cas_type |-> ""]

NewPortfolioSummary ==
    [total_value |-> 0, mutual_funds |-> [count |-> 0, total_value |-> 0]]

CASData ==
    [meta |-> NewMeta, investor_info |-> NewInvestorInfo, schemes |-> <<>>,
     transactions |-> <<>>, portfolio_summary |-> NewPortfolioSummary]

\* The locals of _extract_mutual_funds before its loop; i and j are 1-based.
NewLocals ==
    [i |-> 1, j |-> 0, current_folio |-> None, current_amc |-> None,
     current_advisor |-> None, current_rta |-> None, current_rta_code |-> None,
     scheme_name |-> <<>>]

\* ------------------------------------------------------- holdings scan
\* The lines looked at after a folio header for the AMC, and after an ISIN
\* anchor for the closing balance: range(i+1, min(i+5, len(lines))) and
\* range(i+1, min(i+10, len(lines))).
AmcWindow == 4
BalanceWindow == 9

RECURSIVE AmcLookahead(_, _, _, _)
\* The AMC after the folio header at line i: the first line of the window
\* that contains 'Mutual Fund', else the AMC carried so far.
AmcLookahead(lines, j, last, current_amc) ==
    IF j > last THEN current_amc
    ELSE IF Occurs(<<"Mutual", "Fund">>, lines[j]) THEN Some(lines[j])
    ELSE AmcLookahead(lines, j + 1, last, current_amc)

\* GainOf without its guard on the absolute gain: a cost of zero still
\* yields value - cost.
GainOfUnguarded(value, cost) ==
    [absolute |-> Some(value - cost),
     percentage |-> IF cost > 0 THEN Some(((value - cost) * 10000) \div cost) ELSE None]

\* scheme.gain once cost is known: set only when cost > 0.  The percentage
\* is kept in hundredths of a percent, rounded down.
GainOf(value, cost) ==
    IF cost > 0
    THEN [absolute |-> Some(value - cost),
          percentage |-> Some(((value - cost) * 10000) \div cost)]
    ELSE NewGain

\* The body of  if len(numbers) >= 3:  on a closing balance line: the scheme
\* with its figures, or "raise" when a float() fails.
ReadBalance(scheme, balance_line) ==
    LET numbers == Findall(balance_line)
        cost_match == CostMatch(balance_line)
    IN  IF \E k \in 1..3 : ~CanFloat(numbers[k]) THEN [status |-> "raise"]
        ELSE LET s1 == [scheme EXCEPT !.units = ToFloat(numbers[1]),
                                      !.nav = ToFloat(numbers[2]),
                                      !.value = ToFloat(numbers[3])]
             IN  IF ~IsSet(cost_match) THEN [status |-> "found", scheme |-> s1]
                 ELSE IF ~CanFloat(Get(cost_match)) THEN [status |-> "raise"]
                 ELSE [status |-> "found",
                       scheme |-> [s1 EXCEPT !.cost = Some(ToFloat(Get(cost_match))),
                                             !.gain = GainOf(s1.value, ToFloat(Get(cost_match)))]]

RECURSIVE BalanceLookahead(_, _, _, _)
\* The loop  for j in range(i+1, min(i+10, len(lines))):  "found" with the
\* scheme to append, "raise", or "none" when the window holds no closing
\* balance line with three numbers.
BalanceLookahead(lines, j, last, scheme) ==
    IF j > last THEN [status |-> "none"]
    ELSE IF /\ Occurs(<<"Closing", "Unit", "Balance:">>, lines[j])
            /\ Len(Findall(lines[j])) >= 3
         THEN ReadBalance(scheme, lines[j])
    ELSE BalanceLookahead(lines, j + 1, last, scheme)

\* ScanLineStep with the advisor assigned from every line: a line without an
\* advisor code clears the one carried so far.
ScanLineStepAdvisorPerLine(lines, l, cas) ==
    LET line == lines[l.i]
        folio_match == FolioMatch(line)
        advisor_match == AdvisorMatch(line)
        isin_match == IsinMatch(line)
        advisor == advisor_match
        rta == IF HasWord("CAMS", line) THEN Some("CAMS")
               ELSE IF HasWord("KFINTECH", line) THEN Some("KFINTECH")
               ELSE l.current_rta
        l1 == [l EXCEPT !.current_advisor = advisor, !.current_rta = rta]
        scheme_name == IF l.i > 1 THEN lines[l.i - 1] ELSE <<>>
        scheme == [MutualFundScheme(l.current_folio, l.current_amc, scheme_name,
                                    Get(isin_match))
                       EXCEPT !.additional_info =
                           [advisor |-> advisor, rta |-> rta,
                            rta_code |-> l.current_rta_code]]
        balance == BalanceLookahead(lines, l.i + 1,
                                    Min(l.i + BalanceWindow, Len(lines)), scheme)
    IN  IF l.i > Len(lines)
        THEN [pc |-> "summary", exc |-> None, cas |-> cas, loc |-> l]
        ELSE IF IsSet(folio_match)
        THEN [pc |-> "scan", exc |-> None, cas |-> cas,
              loc |-> [l EXCEPT !.current_folio = folio_match,
                                !.current_amc =
                                    AmcLookahead(lines, l.i + 1,
                                                 Min(l.i + AmcWindow, Len(lines)),
                                                 l.current_amc),
                                !.i = l.i + 1]]
        ELSE IF ~IsSet(isin_match)
        THEN [pc |-> "scan", exc |-> None, cas |-> cas,
              loc |-> [l1 EXCEPT !.i = l.i + 1]]
        ELSE IF balance.status = "raise"
        THEN [pc |-> "parse_raised", exc |-> Some(ValueError(<<LibFloatMsg>>)),
              cas |-> cas, loc |-> [l1 EXCEPT !.scheme_name = scheme_name]]
        ELSE [pc |-> "txns", exc |-> None,
              cas |-> IF balance.status = "found"
                      THEN [cas EXCEPT !.schemes = Append(@, balance.scheme)]
                      ELSE cas,
              loc |-> [l1 EXCEPT !.scheme_name = scheme_name, !.j = l.i + 1]]

\* One iteration of  for i, line in enumerate(lines):  without the
\* transaction scan, which follows at position "txns"; past the last line
\* the loop ends and parse() goes on to the summary.
ScanLineStep(lines, l, cas) ==
    LET line == lines[l.i]
        folio_match == FolioMatch(line)
        advisor_match == AdvisorMatch(line)
        isin_match == IsinMatch(line)
        advisor == IF IsSet(advisor_match) THEN advisor_match ELSE l.current_advisor
        rta == IF HasWord("CAMS", line) THEN Some("CAMS")
               ELSE IF HasWord("KFINTECH", line) THEN Some("KFINTECH")
               ELSE l.current_rta
        l1 == [l EXCEPT !.current_advisor = advisor, !.current_rta = rta]
        scheme_name == IF l.i > 1 THEN lines[l.i - 1] ELSE <<>>
        scheme == [MutualFundScheme(l.current_folio, l.current_amc, scheme_name,
                                    Get(isin_match))
                       EXCEPT !.additional_info =
                           [advisor |-> advisor, rta |-> rta,
                            rta_code |-> l.current_rta_code]]
        balance == BalanceLookahead(lines, l.i + 1,
                                    Min(l.i + BalanceWindow, Len(lines)), scheme)
    IN  IF l.i > Len(lines)
        THEN [pc |-> "summary", exc |-> None, cas |-> cas, loc |-> l]
        ELSE IF IsSet(folio_match)
        THEN [pc |-> "scan", exc |-> None, cas |-> cas,
              loc |-> [l EXCEPT !.current_folio = folio_match,
                                !.current_amc =
                                    AmcLookahead(lines, l.i + 1,
                                                 Min(l.i + AmcWindow, Len(lines)),
                                                 l.current_amc),
                                !.i = l.i + 1]]
        ELSE IF ~IsSet(isin_match)
        THEN [pc |-> "scan", exc |-> None, cas |-> cas,
              loc |-> [l1 EXCEPT !.i = l.i + 1]]
        ELSE IF balance.status = "raise"
        THEN [pc |-> "parse_raised", exc |-> Some(ValueError(<<LibFloatMsg>>)),
              cas |-> cas, loc |-> [l1 EXCEPT !.scheme_name = scheme_name]]
        ELSE [pc |-> "txns", exc |-> None,
              cas |-> IF balance.status = "found"
                      THEN [cas EXCEPT !.schemes = Append(@, balance.scheme)]
                      ELSE cas,
              loc |-> [l1 EXCEPT !.scheme_name = scheme_name, !.j = l.i + 1]]

\* ---------------------------------------------------- transaction scan
TransactionTypes ==
    {"PURCHASE", "PURCHASE_SIP", "REDEMPTION", "SWITCH_IN", "SWITCH_OUT",
     "DIVIDEND_PAYOUT", "DIVIDEND_REINVESTMENT", "MISC"}

\* TransactionType with the two Switch tests moved to the head of the chain.
TransactionTypeSwitchFirst(desc) ==
    IF Occurs(<<"Switch", "Out">>, desc) THEN "SWITCH_OUT"
    ELSE IF Occurs(<<"Switch", "In">>, desc) THEN "SWITCH_IN"
    ELSE IF HasWord("Purchase", desc)
    THEN (IF HasWord("SIP", desc) THEN "PURCHASE_SIP" ELSE "PURCHASE")
    ELSE IF HasWord("Redemption", desc) THEN "REDEMPTION"
    ELSE IF HasWord("Dividend", desc)
    THEN (IF HasWord("Payout", desc) THEN "DIVIDEND_PAYOUT" ELSE "DIVIDEND_REINVESTMENT")
    ELSE "MISC"

\* The if/elif chain over desc that sets txn.type.
TransactionType(desc) ==
    IF HasWord("Purchase", desc)
    THEN (IF HasWord("SIP", desc) THEN "PURCHASE_SIP" ELSE "PURCHASE")
    ELSE IF HasWord("Redemption", desc) THEN "REDEMPTION"
    ELSE IF Occurs(<<"Switch", "Out">>, desc) THEN "SWITCH_OUT"
    ELSE IF Occurs(<<"Switch", "In">>, desc) THEN "SWITCH_IN"
    ELSE IF HasWord("Dividend", desc)
    THEN (IF HasWord("Payout", desc) THEN "DIVIDEND_PAYOUT" ELSE "DIVIDEND_REINVESTMENT")
    ELSE "MISC"

\* ReadsDividendRate with the pattern looked for whatever the type.
ReadsDividendRateAnyType(desc) == TRUE

\* The dividend rate pattern is looked for in the Dividend branch only.
ReadsDividendRate(desc) ==
    TransactionType(desc) \in {"DIVIDEND_PAYOUT", "DIVIDEND_REINVESTMENT"}

\* ParseTransaction without the try block around the conversions: a float()
\* that fails raises out of the scan.
ParseTransactionNoTry(parts, l) ==
    LET n == Len(parts)
        desc == SubSeq(parts, 2, n - 3)
        dividend_match == DividendMatch(desc)
        txn == Transaction(l.current_folio, l.current_amc, l.scheme_name,
                           StrptimeTable[parts[1]], desc,
                           ToFloat(parts[n - 2]), ToFloat(parts[n - 1]), ToFloat(parts[n]))
    IN  IF ~CanStrptime(parts[1]) THEN [status |-> "raise"]
        ELSE IF \E k \in (n - 2)..n : ~CanFloat(parts[k]) THEN [status |-> "raise"]
        ELSE IF ReadsDividendRate(desc) /\ IsSet(dividend_match)
        THEN (IF ~CanFloat(Get(dividend_match)) THEN [status |-> "raise"]
              ELSE [status |-> "append",
                    txn |-> [txn EXCEPT !.type = Some(TransactionType(desc)),
                                        !.dividend_rate = Some(ToFloat(Get(dividend_match)))]])
        ELSE [status |-> "append",
              txn |-> [txn EXCEPT !.type = Some(TransactionType(desc))]]

\* The body of  if len(parts) >= 5:  for one date-prefixed line: "raise" when
\* strptime fails (it is called outside the try), "skip" when the try block
\* raises ValueError and the handler continues, else "append" with the
\* transaction.
ParseTransaction(parts, l) ==
    LET n == Len(parts)
        desc == SubSeq(parts, 2, n - 3)
        dividend_match == DividendMatch(desc)
        txn == Transaction(l.current_folio, l.current_amc, l.scheme_name,
                           StrptimeTable[parts[1]], desc,
                           ToFloat(parts[n - 2]), ToFloat(parts[n - 1]), ToFloat(parts[n]))
    IN  IF ~CanStrptime(parts[1]) THEN [status |-> "raise"]
        ELSE IF \E k \in (n - 2)..n : ~CanFloat(parts[k]) THEN [status |-> "skip"]
        ELSE IF ReadsDividendRate(desc) /\ IsSet(dividend_match)
        THEN (IF ~CanFloat(Get(dividend_match)) THEN [status |-> "skip"]
              ELSE [status |-> "append",
                    txn |-> [txn EXCEPT !.type = Some(TransactionType(desc)),
                                        !.dividend_rate = Some(ToFloat(Get(dividend_match)))]])
        ELSE [status |-> "append",
              txn |-> [txn EXCEPT !.type = Some(TransactionType(desc))]]

\* TxnLineStep without the test that ends a span at the next 'ISIN:' line:
\* the span of every anchor runs to the end of the text.
TxnLineStepPastAnchor(lines, l, cas) ==
    LET line == lines[l.j]
        parsed == ParseTransaction(line, l)
        next_line == [l EXCEPT !.j = l.j + 1]
    IN  IF l.j > Len(lines)
        THEN [pc |-> "scan", exc |-> None, cas |-> cas, loc |-> [l EXCEPT !.i = l.i + 1]]
        ELSE IF ~(DateLine(line) /\ Len(line) >= 5)
        THEN [pc |-> "txns", exc |-> None, cas |-> cas, loc |-> next_line]
        ELSE IF parsed.status = "raise"
        THEN [pc |-> "parse_raised", exc |-> Some(ValueError(<<LibStrptimeMsg>>)),
              cas |-> cas, loc |-> l]
        ELSE IF parsed.status = "skip"
        THEN [pc |-> "txns", exc |-> None, cas |-> cas, loc |-> next_line]
        ELSE [pc |-> "txns", exc |-> None,
              cas |-> [cas EXCEPT !.transactions = Append(@, parsed.txn)],
              loc |-> next_line]

\* One iteration of  for j in range(i+1, len(lines)):  the loop ends past
\* the last line or at a line that contains 'ISIN:', and the outer loop
\* goes on with line i+1.
TxnLineStep(lines, l, cas) ==
    LET line == lines[l.j]
        parsed == ParseTransaction(line, l)
        next_line == [l EXCEPT !.j = l.j + 1]
    IN  IF l.j > Len(lines) \/ HasWord("ISIN:", line)
        THEN [pc |-> "scan", exc |-> None, cas |-> cas, loc |-> [l EXCEPT !.i = l.i + 1]]
        ELSE IF ~(DateLine(line) /\ Len(line) >= 5)
        THEN [pc |-> "txns", exc |-> None, cas |-> cas, loc |-> next_line]
        ELSE IF parsed.status = "raise"
        THEN [pc |-> "parse_raised", exc |-> Some(ValueError(<<LibStrptimeMsg>>)),
              cas |-> cas, loc |-> l]
        ELSE IF parsed.status = "skip"
        THEN [pc |-> "txns", exc |-> None, cas |-> cas, loc |-> next_line]
        ELSE [pc |-> "txns", exc |-> None,
              cas |-> [cas EXCEPT !.transactions = Append(@, parsed.txn)],
              loc |-> next_line]

\* -------------------------------------------------------- investor info
\* Line k starts a match of  ^([^\n]+)\s+PAN:  (re.MULTILINE) that takes the
\* whole line: the line is not blank and the next non-blank line starts
\* with 'PAN:'.
NameBeforePan(lines, k) ==
    /\ lines[k] # EmptyLine
    /\ \E m \in (k + 1)..Len(lines) :
          /\ lines[m] # EmptyLine
          /\ lines[m][1] = "PAN:"
          /\ \A b \in (k + 1)..(m - 1) : lines[b] = EmptyLine

\* The positions after the first where 'PAN:' stands inside line k.
PanInside(lines, k) == {p \in 2..Len(lines[k]) : lines[k][p] = "PAN:"}

\* re.search(name_pattern, text, re.MULTILINE).group(1).strip(), optional:
\* the first line with a match; the greedy group takes the whole line when
\* it can, else the part before the last 'PAN:' of the line.
NameMatch(lines) ==
    LET at == {k \in 1..Len(lines) : NameBeforePan(lines, k) \/ PanInside(lines, k) # {}}
        k == SetMin(at)
        last == CHOOSE p \in PanInside(lines, k) : \A r \in PanInside(lines, k) : r <= p
    IN  IF at = {} THEN None
        ELSE IF NameBeforePan(lines, k) THEN Some(lines[k])
        ELSE Some(SubSeq(lines[k], 1, last - 1))

\* _extract_investor_info: the PAN is matched and printed, the name is
\* stored.  (Email, mobile, CAS id and address are not modelled.)
ExtractInvestorInfoOf(lines, info) ==
    IF IsSet(NameMatch(lines)) THEN [info EXCEPT !.name = Get(NameMatch(lines))] ELSE info

\* ----------------------------------------------------- portfolio summary
\* sum(scheme.value for scheme in self.cas_data.schemes if scheme.value is not None)
SchemeValues(schemes) == SumSeq([k \in 1..Len(schemes) |-> schemes[k].value])

\* PortfolioSummaryOf with the total assigned instead of accumulated: the
\* value of the last scheme.
PortfolioSummaryOfLast(schemes) ==
    LET last == IF schemes = <<>> THEN 0 ELSE schemes[Len(schemes)].value
    IN  [total_value |-> last,
         mutual_funds |-> [count |-> Len(schemes), total_value |-> last]]

\* _calculate_portfolio_summary
PortfolioSummaryOf(schemes) ==
    [total_value |-> SchemeValues(schemes),
     mutual_funds |-> [count |-> Len(schemes), total_value |-> SchemeValues(schemes)]]

\* ------------------------------------------------------------------ meta
\* re.search(period_pattern, text), as its two groups, optional: the first
\* line, and the leftmost place in it, where the phrase stands with a date
\* token after 'from' and a token that starts with a date after 'to'.
PeriodMatch(lines) ==
    LET at(k) == {p \in 1..Len(lines[k]) :
                     /\ OccursAt(<<"Statement", "for", "the", "period", "from">>, lines[k], p)
                     /\ p + 7 <= Len(lines[k])
                     /\ lines[k][p + 5] \in DatePrefixed
                     /\ lines[k][p + 6] = "to"
                     /\ lines[k][p + 7] \in DatePrefixed}
        matching == {k \in 1..Len(lines) : at(k) # {}}
        k == SetMin(matching)
    IN  IF matching = {} THEN None
        ELSE Some(<<lines[k][SetMin(at(k)) + 5], lines[k][SetMin(at(k)) + 7]>>)

\* _extract_meta_info(text) on a parser with the given pdf_path: "ok" with
\* the meta dictionary, or "raise" when strptime fails on a matched date.
ExtractMetaInfo(lines, pdf_path) ==
    LET period_match == PeriodMatch(lines)
        meta == [cas_type |-> "CAMS", generated_at |-> GeneratedAtTable[pdf_path],
                 statement_period |-> [from |-> None, to |-> None]]
    IN  IF ~IsSet(period_match) THEN [status |-> "ok", meta |-> meta]
        ELSE IF \E g \in 1..2 : ~CanStrptime(Get(period_match)[g]) THEN [status |-> "raise"]
        ELSE [status |-> "ok",
              meta |-> [meta EXCEPT !.statement_period =
                           [from |-> Some(StrftimeTable[StrptimeTable[Get(period_match)[1]]]),
                            to |-> Some(StrftimeTable[StrptimeTable[Get(period_match)[2]]])]]]

\* ------------------------------------------------------------- whole runs
RECURSIVE RunScan(_, _)
\* _extract_mutual_funds from the state st to its end: the steps above,
\* repeated until the loop ends or raises.
RunScan(lines, st) ==
    IF st.pc = "scan" THEN RunScan(lines, ScanLineStep(lines, st.loc, st.cas))
    ELSE IF st.pc = "txns" THEN RunScan(lines, TxnLineStep(lines, st.loc, st.cas))
    ELSE st

\* _extract_mutual_funds on a fresh parser over the given lines.
ExtractMutualFunds(lines) ==
    RunScan(lines, [pc |-> "scan", exc |-> None, cas |-> CASData, loc |-> NewLocals])

\* parse() on a fresh parser over the given lines: the investor, the
\* holdings with their transactions, the summary.
ParseOf(lines) ==
    LET scanned == ExtractMutualFunds(lines).cas
    IN  [scanned EXCEPT !.investor_info = ExtractInvestorInfoOf(lines, NewInvestorInfo),
                        !.portfolio_summary = PortfolioSummaryOf(scanned.schemes)]

\* ---------------------------------------------------------------- actions
\* _extract_text, lines 20-27: PdfReader opens the file and, when it is
\* encrypted, decrypts it.  A failed decrypt raises the credential error
\* from inside the outer try only.
OpenReader ==
    /\ pc = "open_reader"
    /\ IF doc.reader = "unreadable"
       THEN /\ exc' = Some(Exception("PdfReadError", <<LibReadMsg>>))
            /\ pc' = "except_outer"
       ELSE IF doc.reader \in {"decrypt_false", "decrypt_raises"}
       THEN /\ exc' = Some(ValueError(<<MsgInvalidPAN>>))
            /\ pc' = "except_outer"
       ELSE /\ exc' = exc
            /\ pc' = "extract_pages"
    /\ UNCHANGED <<service, other, doc, text, loc, cas_data, response>>

\* _extract_text, lines 30-46: pdfplumber extracts the text, then the marker
\* check, then the empty check; __init__ then creates the CASData.
ExtractPages ==
    /\ pc = "extract_pages"
    /\ IF doc.plumber = "raises_password"
       THEN /\ exc' = Some(Exception("PDFPasswordIncorrect", <<LibPasswordMsg>>))
            /\ pc' = "except_inner"
            /\ text' = text
       ELSE IF doc.plumber = "raises_other"
       THEN /\ exc' = Some(Exception("PDFSyntaxError", <<LibSyntaxMsg>>))
            /\ pc' = "except_inner"
            /\ text' = text
       ELSE IF doc.plumber = "page_none"
       THEN /\ exc' = Some(Exception("TypeError", <<LibTypeMsg>>))
            /\ pc' = "except_inner"
            /\ text' = text
       ELSE /\ text' = PagesText(doc)
            /\ IF ~HasMarker(PagesText(doc))
               THEN exc' = Some(ValueError(<<MsgNotCAMS>>)) /\ pc' = "except_inner"
               ELSE IF IsBlank(PagesText(doc))
               THEN exc' = Some(ValueError(<<MsgNoText>>)) /\ pc' = "except_inner"
               ELSE exc' = exc /\ pc' = "investor"
    /\ UNCHANGED <<service, other, doc, loc, cas_data, response>>

\* InnerHandler without the test for a password message: every exception of
\* the text extractor is wrapped as an extraction error.
InnerHandlerWrapsAll(e) ==
    ValueError(<<"Error extracting text from PDF: ">> \o e.msg)

\* _extract_text, lines 47-50: the handler of the inner try.
InnerHandler(e) ==
    IF MentionsPassword(e) THEN ValueError(<<MsgInvalidPAN>>)
    ELSE ValueError(<<"Error extracting text from PDF: ">> \o e.msg)

ExceptInner ==
    /\ pc = "except_inner"
    /\ exc' = Some(InnerHandler(Get(exc)))
    /\ pc' = "except_outer"
    /\ UNCHANGED <<service, other, doc, text, loc, cas_data, response>>

\* _extract_text, lines 51-54: the handler of the outer try.
OuterHandler(e) ==
    IF e.type = "ValueError" THEN e
    ELSE ValueError(<<"Error processing PDF: ">> \o e.msg)

ExceptOuter ==
    /\ pc = "except_outer"
    /\ exc' = Some(OuterHandler(Get(exc)))
    /\ pc' = "init_raised"
    /\ UNCHANGED <<service, other, doc, text, loc, cas_data, response>>

\* parse(): self._extract_investor_info()
ExtractInvestorInfo ==
    /\ pc = "investor"
    /\ cas_data' = [cas_data EXCEPT !.investor_info = ExtractInvestorInfoOf(text, @)]
    /\ pc' = "scan"
    /\ UNCHANGED <<service, other, doc, text, exc, loc, response>>

\* parse(): self._extract_mutual_funds(), one iteration of the outer loop up
\* to the transaction scan.
ScanLine ==
    /\ pc = "scan"
    /\ LET r == ScanLineStep(text, loc, cas_data)
       IN  /\ pc' = r.pc
           /\ exc' = r.exc
           /\ loc' = r.loc
           /\ cas_data' = r.cas
    /\ UNCHANGED <<service, other, doc, text, response>>

\* One iteration of the transaction scan of the scheme opened at line i.
ScanTxnLine ==
    /\ pc = "txns"
    /\ LET r == TxnLineStep(text, loc, cas_data)
       IN  /\ pc' = r.pc
           /\ exc' = r.exc
           /\ loc' = r.loc
           /\ cas_data' = r.cas
    /\ UNCHANGED <<service, other, doc, text, response>>

\* parse(): self._calculate_portfolio_summary() and return.
CalculatePortfolioSummary ==
    /\ pc = "summary"
    /\ cas_data' = [cas_data EXCEPT !.portfolio_summary = PortfolioSummaryOf(cas_data.schemes)]
    /\ pc' = "parsed"
    /\ UNCHANGED <<service, other, doc, text, exc, loc, response>>

\* parse_cas, lines 113-117 and 152-156: any exception of CASParser(...) or
\* parse() becomes an HTTPException with status 400, which the outer handler
\* re-raises.
ParseFailureDetail(e) ==
    <<"Failed to parse PDF: ">> \o e.msg
        \o <<". Please check if the password is correct and the file is a valid CAS PDF.">>

RespondParseFailure ==
    /\ pc \in {"init_raised", "parse_raised"}
    /\ response' = Some([status_code |-> 400, detail |-> ParseFailureDetail(Get(exc))])
    /\ pc' = "responded"
    /\ UNCHANGED <<service, other, doc, text, exc, loc, cas_data>>

\* parse_cas, lines 119-130: the parsed statement is answered.
RespondParsed ==
    /\ pc = "parsed"
    /\ response' = Some([status_code |-> 200, detail |-> <<>>])
    /\ pc' = "responded"
    /\ UNCHANGED <<service, other, doc, text, exc, loc, cas_data>>

\* extract_content, lines 323-345: the result dictionary, and the text of the
\* pages that have one, each followed by "\n".
ContentOpen ==
    /\ pc = "extract_content"
    /\ loc' = [all_text |-> IF IsBlank(doc.lines) THEN <<EmptyLine>> ELSE PagesText(doc),
               result |-> [meta |-> None, investor |-> None]]
    /\ pc' = "content_meta"
    /\ UNCHANGED <<service, other, doc, text, exc, cas_data, response>>

\* extract_content, line 351: result["meta"] = self._extract_meta_info(all_text)
ContentMeta ==
    /\ pc = "content_meta"
    /\ LET r == ExtractMetaInfo(loc.all_text, doc.pdf_path)
       IN  IF r.status = "raise"
           THEN /\ exc' = Some(ValueError(<<LibStrptimeMsg>>))
                /\ pc' = "content_except"
                /\ loc' = loc
           ELSE /\ exc' = exc
                /\ pc' = "content_investor"
                /\ loc' = [loc EXCEPT !.result.meta = Some(r.meta)]
    /\ UNCHANGED <<service, other, doc, text, cas_data, response>>

\* extract_content, line 354: _extract_investor_info takes no argument but
\* self, and the call with all_text raises TypeError.
ContentInvestor ==
    /\ pc = "content_investor"
    /\ exc' = Some(Exception("TypeError",
                   <<"CASParser._extract_investor_info() takes 1 positional argument but 2 were given">>))
    /\ pc' = "content_except"
    /\ UNCHANGED <<service, other, doc, text, loc, cas_data, response>>

\* extract_content, lines 414-416: any exception is printed and the error
\* dictionary returned.
ContentExcept ==
    /\ pc = "content_except"
    /\ response' = Some([error |-> Get(exc).msg])
    /\ pc' = "content_returned"
    /\ UNCHANGED <<service, other, doc, text, exc, loc, cas_data>>

\* ------------------------------------------------------------ HTTP layer
\* No request is in progress in the HTTP layer: the state in which the
\* parser is looked at on its own.
ServiceIdle ==
    /\ requests = <<>>
    /\ request_counts = <<>>
    /\ clock = "12:00"
    /\ temp_files = {}
    /\ RATE_LIMIT_PER_MINUTE = 60

\* The event loop can run a step of request r: no other request is between
\* saving its upload and leaving the handler.  parse_cas has no await after
\* file.read() (line 100), so from there to its exit it runs without any
\* other request running.
Runs(r) ==
    \A q \in DOMAIN requests \ {r} :
        ~(\/ requests[q].pc \in {"parse", "respond"}
          \/ requests[q].pc = "except" /\ IsSet(requests[q].temp_path))

\* parse_cas, line 84, and verify_api_key: a key is configured and the
\* request's header differs from it, or not.  The HTTPException is raised
\* before the try statement and leaves the handler.
VerifyApiKey(r) ==
    /\ requests[r].pc = "verify_api_key"
    /\ Runs(r)
    /\ \E accepted \in BOOLEAN :
          requests' = [requests EXCEPT ![r].pc = IF accepted THEN "check_rate_limit" ELSE "raised",
                                       ![r].status = IF accepted THEN None ELSE Some(403)]
    /\ UNCHANGED <<request_counts, clock, temp_files, RATE_LIMIT_PER_MINUTE>>
    /\ UNCHANGED <<doc, pc, text, exc, loc, cas_data, response, other>>

\* check_rate_limit with the test  count > RATE_LIMIT_PER_MINUTE.
CheckRateLimitOffByOne(r) ==
    /\ requests[r].pc = "check_rate_limit"
    /\ Runs(r)
    /\ LET key == <<requests[r].client, clock>>
           count == IF key \in DOMAIN request_counts THEN request_counts[key] ELSE 0
       IN  IF RATE_LIMIT_PER_MINUTE = 0
           THEN /\ requests' = [requests EXCEPT ![r].pc = "validate", ![r].passed = Some(key)]
                /\ request_counts' = request_counts
           ELSE IF count > RATE_LIMIT_PER_MINUTE
           THEN /\ requests' = [requests EXCEPT ![r].pc = "raised", ![r].status = Some(429)]
                /\ request_counts' = request_counts
           ELSE /\ requests' = [requests EXCEPT ![r].pc = "validate", ![r].passed = Some(key)]
                /\ request_counts' = (key :> count + 1) @@ request_counts
    /\ UNCHANGED <<clock, temp_files, RATE_LIMIT_PER_MINUTE>>
    /\ UNCHANGED <<doc, pc, text, exc, loc, cas_data, response, other>>

\* parse_cas, line 87, and check_rate_limit: the coroutine has no await in
\* its body, so the event loop runs it from its first line to its last
\* without running another request.  A setting of 0 switches the limit off.
\* passed records the client and minute under which the request got through.
CheckRateLimit(r) ==
    /\ requests[r].pc = "check_rate_limit"
    /\ Runs(r)
    /\ LET key == <<requests[r].client, clock>>
           count == IF key \in DOMAIN request_counts THEN request_counts[key] ELSE 0
       IN  IF RATE_LIMIT_PER_MINUTE = 0
           THEN /\ requests' = [requests EXCEPT ![r].pc = "validate", ![r].passed = Some(key)]
                /\ request_counts' = request_counts
           ELSE IF count >= RATE_LIMIT_PER_MINUTE
           THEN /\ requests' = [requests EXCEPT ![r].pc = "raised", ![r].status = Some(429)]
                /\ request_counts' = request_counts
           ELSE /\ requests' = [requests EXCEPT ![r].pc = "validate", ![r].passed = Some(key)]
                /\ request_counts' = (key :> count + 1) @@ request_counts
    /\ UNCHANGED <<clock, temp_files, RATE_LIMIT_PER_MINUTE>>
    /\ UNCHANGED <<doc, pc, text, exc, loc, cas_data, response, other>>

\* parse_cas, lines 89-102: temp_path = None, then the checks of the file
\* name, the output format and the size; each raises an HTTPException with
\* status 400 inside the try statement, and file.read() can fail.
Validate(r) ==
    /\ requests[r].pc = "validate"
    /\ Runs(r)
    /\ \/ \E output_format \in {"json", "excel"} :
             requests' = [requests EXCEPT ![r].pc = "save",
                                          ![r].output_format = output_format]
       \/ requests' = [requests EXCEPT ![r].pc = "except",
                                       ![r].exc = Some([type |-> "HTTPException",
                                                        status_code |-> 400])]
       \/ requests' = [requests EXCEPT ![r].pc = "except",
                                       ![r].exc = Some([type |-> "OSError"])]
    /\ UNCHANGED <<request_counts, clock, temp_files, RATE_LIMIT_PER_MINUTE>>
    /\ UNCHANGED <<doc, pc, text, exc, loc, cas_data, response, other>>

\* parse_cas, lines 105-107: temp_path is assigned, the file opened for
\* writing (which creates it, or fails) and written (which can fail).  The
\* path carries the time stamp of the request and is its own.
SaveUpload(r) ==
    /\ requests[r].pc = "save"
    /\ Runs(r)
    /\ \/ /\ requests' = [requests EXCEPT ![r].pc = "parse", ![r].temp_path = Some(r)]
          /\ temp_files' = temp_files \cup {r}
       \/ /\ requests' = [requests EXCEPT ![r].pc = "except", ![r].temp_path = Some(r),
                                          ![r].exc = Some([type |-> "OSError"])]
          /\ temp_files' \in {temp_files, temp_files \cup {r}}
    /\ UNCHANGED <<request_counts, clock, RATE_LIMIT_PER_MINUTE>>
    /\ UNCHANGED <<doc, pc, text, exc, loc, cas_data, response, other>>

\* parse_cas, lines 109-117: CASParser(temp_path, password) and parse()
\* return, or raise what the handler turns into an HTTPException with
\* status 400.
ParseUpload(r) ==
    /\ requests[r].pc = "parse"
    /\ Runs(r)
    /\ \/ requests' = [requests EXCEPT ![r].pc = "respond"]
       \/ requests' = [requests EXCEPT ![r].pc = "except",
                                       ![r].exc = Some([type |-> "HTTPException",
                                                        status_code |-> 400])]
    /\ UNCHANGED <<request_counts, clock, temp_files, RATE_LIMIT_PER_MINUTE>>
    /\ UNCHANGED <<doc, pc, text, exc, loc, cas_data, response, other>>

\* parse_cas, lines 119-150.  JSON: the result dictionary is built (or an
\* attribute is missing), the upload removed, the response constructed (or
\* the content does not serialize).  Excel: to_excel writes the workbook
\* (or raises, which becomes an HTTPException with status 500), the upload is
\* removed, the response constructed.
Respond(r) ==
    /\ requests[r].pc = "respond"
    /\ Runs(r)
    /\ IF requests[r].output_format = "json"
       THEN \/ /\ requests' = [requests EXCEPT ![r].pc = "except",
                                               ![r].exc = Some([type |-> "AttributeError"])]
               /\ temp_files' = temp_files
            \/ /\ requests' = [requests EXCEPT ![r].pc = "returned", ![r].status = Some(200)]
               /\ temp_files' = temp_files \ {r}
            \/ /\ requests' = [requests EXCEPT ![r].pc = "except",
                                               ![r].exc = Some([type |-> "TypeError"])]
               /\ temp_files' = temp_files \ {r}
       ELSE \/ /\ requests' = [requests EXCEPT ![r].pc = "except",
                                               ![r].exc = Some([type |-> "HTTPException",
                                                                status_code |-> 500])]
               /\ temp_files' = temp_files
            \/ /\ requests' = [requests EXCEPT ![r].pc = "returned", ![r].status = Some(200)]
               /\ temp_files' = temp_files \ {r}
    /\ UNCHANGED <<request_counts, clock, RATE_LIMIT_PER_MINUTE>>
    /\ UNCHANGED <<doc, pc, text, exc, loc, cas_data, response, other>>

\* The except clauses with the upload left where it is.
ExceptKeepsUpload(r) ==
    /\ requests[r].pc = "except"
    /\ Runs(r)
    /\ requests' = [requests EXCEPT
                       ![r].pc = "raised",
                       ![r].status = IF Get(requests[r].exc).type = "HTTPException"
                                     THEN Some(Get(requests[r].exc).status_code)
                                     ELSE Some(500)]
    /\ UNCHANGED <<request_counts, clock, temp_files, RATE_LIMIT_PER_MINUTE>>
    /\ UNCHANGED <<doc, pc, text, exc, loc, cas_data, response, other>>

\* parse_cas, lines 152-164, the two except clauses: each removes the file
\* at temp_path if temp_path is set and the file exists; an HTTPException is
\* raised again, anything else becomes an HTTPException with status 500.
Except(r) ==
    /\ requests[r].pc = "except"
    /\ Runs(r)
    /\ requests' = [requests EXCEPT
                       ![r].pc = "raised",
                       ![r].status = IF Get(requests[r].exc).type = "HTTPException"
                                     THEN Some(Get(requests[r].exc).status_code)
                                     ELSE Some(500)]
    /\ temp_files' = IF IsSet(requests[r].temp_path)
                     THEN temp_files \ {Get(requests[r].temp_path)}
                     ELSE temp_files
    /\ UNCHANGED <<request_counts, clock, RATE_LIMIT_PER_MINUTE>>
    /\ UNCHANGED <<doc, pc, text, exc, loc, cas_data, response, other>>

\* check_rate_limit, line 62: the minute datetime.now() falls in moves on.
Tick ==
    /\ clock = "12:00"
    /\ clock' = "12:01"
    /\ UNCHANGED <<requests, request_counts, temp_files, RATE_LIMIT_PER_MINUTE>>
    /\ UNCHANGED <<doc, pc, text, exc, loc, cas_data, response, other>>

\* --------------------------------------------------------- specifications
\* A request for the document d: parse_cas has saved the upload and is about
\* to construct the parser.
InitDoc(d) ==
    /\ doc = d
    /\ pc = "open_reader"
    /\ text = <<>>
    /\ exc = None
    /\ loc = NewLocals
    /\ cas_data = CASData
    /\ response = None
    /\ other = None
    /\ ServiceIdle

Next ==
    \/ OpenReader
    \/ ExtractPages
    \/ ExceptInner
    \/ ExceptOuter
    \/ ExtractInvestorInfo
    \/ ScanLine
    \/ ScanTxnLine
    \/ CalculatePortfolioSummary
    \/ RespondParseFailure
    \/ RespondParsed

\* Statements with holdings: folio, scheme, balance and transaction lines.
HoldingLines ==
    {FolioLine, SchemeLine, IsinLine, BalLine, BalCostLine, BalLossLine,
     BalZeroCostLine, TxnSip}

Init == \E d \in ReadableDocs(HoldingLines) \cup OutcomeDocs : InitDoc(d)

Spec == Init /\ [][Next]_vars

\* Statements with transactions of every kind of line the scan tells apart.
TransactionLines ==
    {SchemeLine, IsinLine, TxnSip, TxnRed, TxnDiv, TxnPurRate, TxnDivBadRate,
     TxnBadNum}

InitTxn == \E d \in ReadableDocs(TransactionLines) \cup OutcomeDocs : InitDoc(d)

SpecTxn == InitTxn /\ [][Next]_vars

\* Statements with lines whose date or number does not convert.
UnconvertibleLines ==
    {SchemeLine, IsinLine, BalLine, BalCommaLine, TxnSip, TxnBadDate, TxnShort}

InitRaise == \E d \in ReadableDocs(UnconvertibleLines) \cup OutcomeDocs : InitDoc(d)

SpecRaise == InitRaise /\ [][Next]_vars

\* Statements with the investor's name and PAN.
InvestorLines ==
    {NameLine, PanLine, NamePanLine, EmptyLine, SchemeLine, IsinLine, TxnSip}

InitInvestor == \E d \in ReadableDocs(InvestorLines) \cup OutcomeDocs : InitDoc(d)

SpecInvestor == InitInvestor /\ [][Next]_vars

\* Statements with transactions of every type, one of them with the keywords
\* of two types.
KindLines ==
    {IsinLine, TxnSip, TxnSwitchOut, TxnSwitchIn, TxnSwitchRed, TxnDiv, TxnDivReinv,
     TxnMisc}

InitKinds == \E d \in ReadableDocs(KindLines) \cup OutcomeDocs : InitDoc(d)

SpecKinds == InitKinds /\ [][Next]_vars

\* Statements with the lines that set the scan context: folio headers,
\* advisor and registrar lines.
ContextLines ==
    {FolioLine, Folio2Line, AdvisorLine, RtaLine, SchemeLine, IsinLine, BalLine, TxnSip}

InitContext == \E d \in ReadableDocs(ContextLines) \cup OutcomeDocs : InitDoc(d)

SpecContext == InitContext /\ [][Next]_vars

\* Statements with closing balance lines of every shape: three figures, a
\* date among the figures, one figure only.
BalanceLines ==
    {SchemeLine, IsinLine, BalLine, BalLossLine, BalDateLine, BalShortLine, TxnSip}

InitBalance == \E d \in ReadableDocs(BalanceLines) \cup OutcomeDocs : InitDoc(d)

SpecBalance == InitBalance /\ [][Next]_vars

\* Statements that open with a folio header and its AMC line, followed by
\* further folio headers, AMC lines and schemes.
AmcLines ==
    {Folio2Line, AmcLine, SchemeLine, IsinLine, BalLine, TxnSip}

InitAmc ==
    \E d \in {[e EXCEPT !.lines = <<FolioLine, AmcLine>> \o @] : e \in ReadableDocs(AmcLines)}
                \cup OutcomeDocs : InitDoc(d)

SpecAmc == InitAmc /\ [][Next]_vars

\* Statements with a statement period line, with dates that convert and
\* with one that does not.
MetaLines == {PeriodLine, PeriodBadLine, NameLine, IsinLine}

\* extract_content() is called on a parser that __init__ has constructed
\* for a statement under one of the file names.
InitMeta ==
    \E d \in ReadableDocs(MetaLines), f \in DOMAIN GeneratedAtTable :
        /\ HasMarker(PagesText(d))
        /\ doc = [reader |-> d.reader, plumber |-> d.plumber, lines |-> d.lines,
                  pdf_path |-> f]
        /\ pc = "extract_content"
        /\ text = PagesText(d)
        /\ exc = None
        /\ loc = NewLocals
        /\ cas_data = CASData
        /\ response = None
        /\ other = None
        /\ ServiceIdle

NextMeta ==
    \/ ContentOpen
    \/ ContentMeta
    \/ ContentInvestor
    \/ ContentExcept

SpecMeta == InitMeta /\ [][NextMeta]_vars

\* Two requests at a time, each with its own CASParser: the one that runs
\* and the one that waits.
Running ==
    [doc |-> doc, pc |-> pc, text |-> text, exc |-> exc, loc |-> loc,
     cas_data |-> cas_data, response |-> response]

\* Resume with the record graph a class attribute, shared by the parsers
\* instead of created by each: the resumed request goes on with the graph
\* the other request left.
ResumeSharedGraph(saved, running) == [saved EXCEPT !.cas_data = running.cas_data]

\* What a request goes on with when it runs again: pdf_path, password, text
\* and cas_data are attributes __init__ sets on its own parser, the rest are
\* locals of its own calls; nothing is taken from the request that ran.
Resume(saved, running) == saved

\* The running request is suspended and the waiting one goes on.
Switch ==
    /\ IsSet(other)
    /\ other' = Some(Running)
    /\ LET r == Resume(Get(other), Running)
       IN  /\ doc' = r.doc
           /\ pc' = r.pc
           /\ text' = r.text
           /\ exc' = r.exc
           /\ loc' = r.loc
           /\ cas_data' = r.cas_data
           /\ response' = r.response
    /\ UNCHANGED service

\* A statement with a folio of one scheme, one with two schemes, a file that
\* is no statement, and a statement opened with a wrong password.
PairDocs ==
    {[reader |-> "decrypt_ok", plumber |-> "pages",
      lines |-> <<MarkerHead, NameLine, PanLine, FolioLine, AmcLine, SchemeLine,
                  IsinLine, BalCostLine, TxnSip, TxnDiv>>],
     [reader |-> "plain", plumber |-> "pages",
      lines |-> <<SchemeLine, IsinLine, BalLossLine, TxnRed, SchemeLine, Isin2Line,
                  TxnBadNum, BalLine, MarkerFoot>>],
     [reader |-> "plain", plumber |-> "pages", lines |-> <<SchemeLine, IsinLine, BalLine>>],
     [reader |-> "decrypt_ok", plumber |-> "raises_other", lines |-> <<MarkerHead>>],
     [reader |-> "decrypt_false", plumber |-> "pages", lines |-> <<MarkerHead>>]}

InitPair ==
    \E d1 \in PairDocs, d2 \in PairDocs :
        /\ doc = d1
        /\ pc = "open_reader"
        /\ text = <<>>
        /\ exc = None
        /\ loc = NewLocals
        /\ cas_data = CASData
        /\ response = None
        /\ other = Some([doc |-> d2, pc |-> "open_reader", text |-> <<>>, exc |-> None,
                         loc |-> NewLocals, cas_data |-> CASData, response |-> None])
        /\ ServiceIdle

NextPair == Next \/ Switch

SpecPair == InitPair /\ [][NextPair]_vars

\* Three requests to POST /parse/cas, each from one of two client addresses,
\* under a limit of none (0), one or two requests per minute.  The parser is
\* seen through what its calls do to the handler: return or raise.
InitService ==
    /\ requests \in [{"r1", "r2", "r3"} ->
                        [client : {"10.0.0.1", "10.0.0.2"}, pc : {"verify_api_key"},
                         passed : {None}, output_format : {"json"}, temp_path : {None},
                         exc : {None}, status : {None}]]
    /\ request_counts = <<>>
    /\ clock = "12:00"
    /\ temp_files = {}
    /\ RATE_LIMIT_PER_MINUTE \in {0, 1, 2}
    /\ doc = [reader |-> "plain", plumber |-> "pages", lines |-> <<>>]
    /\ pc = "open_reader"
    /\ text = <<>>
    /\ exc = None
    /\ loc = NewLocals
    /\ cas_data = CASData
    /\ response = None
    /\ other = None

NextService ==
    \/ \E r \in DOMAIN requests :
          \/ VerifyApiKey(r)
          \/ CheckRateLimit(r)
          \/ Validate(r)
          \/ SaveUpload(r)
          \/ ParseUpload(r)
          \/ Respond(r)
          \/ Except(r)
    \/ Tick

SpecService == InitService /\ [][NextService]_vars

\* ================================================================ claims
\* parse() has returned its record graph.
Returned == pc \in {"parsed", "responded"} /\ exc = None

C2_ParentSchemeRecorded ==
    \A t \in 1..Len(cas_data.transactions) :
        \E s \in 1..Len(cas_data.schemes) :
            /\ cas_data.schemes[s].folio_number = cas_data.transactions[t].folio_number
            /\ cas_data.schemes[s].name = cas_data.transactions[t].scheme_name

\* C3: once text extraction and format classification have succeeded,
\* parse() returns for every text: no line makes it raise.
C3_ParseNeverRaises == pc # "parse_raised"

\* A transaction line of the scan whose date converts and whose amount,
\* units or NAV token does not.
Malformed(line) ==
    /\ DateLine(line)
    /\ Len(line) >= 5
    /\ CanStrptime(line[1])
    /\ \E k \in (Len(line) - 2)..Len(line) : ~CanFloat(line[k])

RemoveAt(s, k) == SubSeq(s, 1, k - 1) \o SubSeq(s, k + 1, Len(s))

AnchorLines(lines) ==
    {k \in 1..Len(lines) : ~IsSet(FolioMatch(lines[k])) /\ IsSet(IsinMatch(lines[k]))}

\* C5: every ISIN anchor line produces exactly one scheme, also when no
\* closing balance follows it.
C5_OneSchemePerAnchor ==
    pc = "summary" => Len(cas_data.schemes) = Cardinality(AnchorLines(text))

C8_NameAndPanResolved ==
    Returned =>
        \A k \in 2..Len(text) :
            (/\ text[k] # EmptyLine
             /\ text[k][1] = "PAN:"
             /\ IsSet(PanMatch(text[k]))
             /\ text[k - 1] # EmptyLine
             /\ \A m \in 1..(k - 1) : ~HasWord("PAN:", text[m]))
            => /\ cas_data.investor_info.name = text[k - 1]
               /\ cas_data.investor_info.pan = <<Get(PanMatch(text[k]))>>

\* The parts of the message of the exception in flight.
Mentions(part) == IsSet(exc) /\ \E k \in 1..Len(Get(exc).msg) : Get(exc).msg[k] = part

\* C9: text extraction fails with the empty-document error exactly when the
\* text is blank and with the unrecognized-format error exactly when the
\* text is not blank and holds no marker.
C9_EmptyVersusUnrecognized ==
    (pc = "init_raised" /\ doc.reader \in {"plain", "decrypt_ok"} /\ doc.plumber = "pages")
        => /\ Mentions(MsgNoText) <=> IsBlank(text)
           /\ Mentions(MsgNotCAMS) <=> (~IsBlank(text) /\ ~HasMarker(text))

\* C10: the credential and format errors raised inside text extraction
\* leave it unchanged in kind and message, and no answer to the caller
\* embeds the message of a library exception.
C10_ErrorsPassUnwrapped ==
    /\ (pc = "init_raised" /\ (Mentions(MsgInvalidPAN) \/ Mentions(MsgNotCAMS)))
           => Get(exc) \in {ValueError(<<MsgInvalidPAN>>), ValueError(<<MsgNotCAMS>>)}
    /\ IsSet(response)
           => \A k \in 1..Len(Get(response).detail) :
                  Get(response).detail[k] \notin LibraryMessages

\* The supplied password does not decrypt the document, by the stage that
\* finds it out: decrypt() returns false, decrypt() raises, or the text
\* extractor raises an exception whose message names the password.
WrongPassword ==
    \/ doc.reader \in {"decrypt_false", "decrypt_raises"}
    \/ doc.reader \in {"plain", "decrypt_ok"} /\ doc.plumber = "raises_password"

\* C11: when the password does not decrypt the document, the construction
\* of the parser never gets to a text or a parse, and the exception it ends
\* with is the credential error 'Invalid PAN number ...' of type ValueError,
\* whichever stage found it.
C11_WrongPasswordIsCredentialError ==
    WrongPassword =>
        /\ pc \in {"open_reader", "extract_pages", "except_inner", "except_outer",
                    "init_raised", "responded"}
        /\ pc \in {"init_raised", "responded"} => exc = Some(ValueError(<<MsgInvalidPAN>>))

\* The construction has failed with the credential error for a document
\* that PdfReader decrypted and whose text extractor raised on the password.
C11_Witness ==
    /\ pc = "init_raised"
    /\ doc.reader = "decrypt_ok"
    /\ doc.plumber = "raises_password"
    /\ exc = Some(ValueError(<<MsgInvalidPAN>>))

\* C12: every numeric field of every scheme (units, nav, value, cost) and of
\* every transaction (amount, units, nav, dividend_rate) is non-negative;
\* only gain.absolute may be negative.
C12_NumericFieldsNonNegative ==
    Returned =>
        /\ \A k \in 1..Len(cas_data.schemes) :
              LET s == cas_data.schemes[k]
              IN  /\ s.units >= 0 /\ s.nav >= 0 /\ s.value >= 0
                  /\ IsSet(s.cost) => Get(s.cost) >= 0
        /\ \A k \in 1..Len(cas_data.transactions) :
              LET t == cas_data.transactions[k]
              IN  /\ t.amount >= 0 /\ t.units >= 0 /\ t.nav >= 0
                  /\ IsSet(t.dividend_rate) => Get(t.dividend_rate) >= 0

Keywords ==
    <<<<"Purchase">>, <<"Redemption">>, <<"Switch", "Out">>, <<"Switch", "In">>,
      <<"Dividend">>>>

\* The type of the first keyword, in that order, that occurs in desc.
ClaimedType(desc) ==
    LET found == {k \in 1..Len(Keywords) : Occurs(Keywords[k], desc)}
        first == SetMin(found)
    IN  IF found = {} THEN "MISC"
        ELSE IF first = 1
        THEN (IF Occurs(<<"SIP">>, desc) THEN "PURCHASE_SIP" ELSE "PURCHASE")
        ELSE IF first = 2 THEN "REDEMPTION"
        ELSE IF first = 3 THEN "SWITCH_OUT"
        ELSE IF first = 4 THEN "SWITCH_IN"
        ELSE (IF Occurs(<<"Payout">>, desc) THEN "DIVIDEND_PAYOUT"
              ELSE "DIVIDEND_REINVESTMENT")

Content(date, description, amount, units, nav) ==
    [date |-> date, description |-> description, amount |-> amount, units |-> units,
     nav |-> nav]

\* The lines of a text that can yield a transaction (a date that converts,
\* five tokens, three trailing numbers), as the content they would yield,
\* in document order.
Candidates(lines) ==
    LET yields(k) == /\ DateLine(lines[k]) /\ Len(lines[k]) >= 5
                     /\ CanStrptime(lines[k][1])
                     /\ \A m \in (Len(lines[k]) - 2)..Len(lines[k]) : CanFloat(lines[k][m])
        n(k) == Len(lines[k])
    IN  Flatten([k \in 1..Len(lines) |->
            IF yields(k)
            THEN <<Content(StrptimeTable[lines[k][1]], SubSeq(lines[k], 2, n(k) - 3),
                           ToFloat(lines[k][n(k) - 2]), ToFloat(lines[k][n(k) - 1]),
                           ToFloat(lines[k][n(k)]))>>
            ELSE <<>>])

RECURSIVE IsSubsequence(_, _)
\* a is b with some elements left out.
IsSubsequence(a, b) ==
    IF a = <<>> THEN TRUE
    ELSE IF b = <<>> THEN FALSE
    ELSE \/ a[1] = b[1] /\ IsSubsequence(Tail(a), Tail(b))
         \/ IsSubsequence(a, Tail(b))

SetMax(S) == CHOOSE x \in S : \A y \in S : y <= x

\* The value Match gives for the last line up to line k for which it gives
\* one, optional.
LastMatch(Match(_), lines, k) ==
    LET at == {m \in 1..k : IsSet(Match(lines[m]))}
    IN  IF at = {} THEN None ELSE Match(lines[SetMax(at)])

\* The step appends a transaction.
AppendsTransaction == Len(cas_data'.transactions) = Len(cas_data.transactions) + 1

\* C16: a transaction is attributed to the scheme and folio of the nearest
\* ISIN anchor before its line: there is such an anchor, the transaction
\* carries the name of its scheme and the folio that scheme was opened
\* under, and no folio header stands between that anchor and the line.
C16_AttributedToNearestAnchor ==
    [][(pc = "txns" /\ AppendsTransaction)
       => LET t == cas_data'.transactions[Len(cas_data'.transactions)]
              before == {a \in AnchorLines(text) : a < loc.j}
              a == SetMax(before)
          IN  /\ before # {}
              /\ t.scheme_name = (IF a > 1 THEN text[a - 1] ELSE <<>>)
              /\ t.folio_number = LastMatch(FolioMatch, text, a - 1)
              /\ \A m \in (a + 1)..(loc.j - 1) : ~IsSet(FolioMatch(text[m]))]_vars

\* re.search over a line that the scan treats as a line of that kind: a
\* folio header is no advisor line and no registrar line.
AdvisorOf(line) == IF IsSet(FolioMatch(line)) THEN None ELSE AdvisorMatch(line)

RegistrarOf(line) ==
    IF IsSet(FolioMatch(line)) THEN None
    ELSE IF Occurs(<<"CAMS">>, line) THEN Some("CAMS")
    ELSE IF Occurs(<<"KFINTECH">>, line) THEN Some("KFINTECH")
    ELSE None

NumericTokens(line) == SelectSeq(line, LAMBDA tok : CanFloat(tok))

\* C18: a scheme's balance is that of the first line with the closing
\* balance marker among the BalanceWindow lines after its anchor: units, nav
\* and value are the first, second and third numeric token of that line.
C18_BalanceFromFirstMarkerLine ==
    [][(pc = "scan" /\ Len(cas_data'.schemes) = Len(cas_data.schemes) + 1)
       => LET s == cas_data'.schemes[Len(cas_data'.schemes)]
              window == (loc.i + 1)..Min(loc.i + BalanceWindow, Len(text))
              marked == {m \in window : Occurs(<<"Closing", "Unit", "Balance:">>, text[m])}
              numbers == NumericTokens(text[SetMin(marked)])
          IN  /\ marked # {}
              /\ Len(numbers) >= 3
              /\ s.units = ToFloat(numbers[1])
              /\ s.nav = ToFloat(numbers[2])
              /\ s.value = ToFloat(numbers[3])]_vars

\* C19: a parse runs format classification, then meta and investor
\* extraction, then the holdings with their transactions, then the
\* aggregation: no extraction runs on a text without a format marker, the
\* holdings are scanned after the investor is extracted, the summary is
\* computed after the scan, and the returned record graph has been through
\* every stage, meta extraction (which sets cas_type) included.
C19_StagesInOrder ==
    /\ pc \in {"investor", "scan", "txns", "parse_raised", "summary", "parsed"}
           => HasMarker(text) /\ ~IsBlank(text)
    /\ pc = "investor"
           => cas_data.schemes = <<>> /\ cas_data.transactions = <<>>
    /\ pc \in {"scan", "txns", "summary"}
           => /\ cas_data.investor_info = ExtractInvestorInfoOf(text, NewInvestorInfo)
              /\ cas_data.portfolio_summary = NewPortfolioSummary
    /\ Returned
           => /\ cas_data.portfolio_summary = PortfolioSummaryOf(cas_data.schemes)
              /\ cas_data.meta.cas_type # NewMeta.cas_type

\* C20: meta extraction returns a meta record for every text and file name:
\* the call raises nothing; from and to are set exactly when the period
\* pattern matches, as the YYYY-MM-DD form of the matched dates, and
\* generated_at exactly when the file name carries the time stamp.
C20_MetaNeverFails ==
    [][pc = "content_meta"
       => /\ pc' = "content_investor"
          /\ exc' = None
          /\ IsSet(loc'.result.meta)
          /\ LET meta == Get(loc'.result.meta)
                 period == PeriodMatch(loc.all_text)
             IN  /\ IsSet(meta.statement_period.from) <=> IsSet(period)
                 /\ IsSet(meta.statement_period.to) <=> IsSet(period)
                 /\ IsSet(meta.generated_at) <=> IsSet(GeneratedAtTable[doc.pdf_path])
                 /\ period = Some(<<"01-Apr-2024", "02-Apr-2024">>)
                       => meta.statement_period
                              = [from |-> Some("2024-04-01"), to |-> Some("2024-04-02")]]_vars

\* The step opens a scheme and records it.
AppendsScheme == pc = "scan" /\ Len(cas_data'.schemes) = Len(cas_data.schemes) + 1

\* The lines of the scheme anchored at line a: those after the anchor and
\* before the next line holding an ISIN anchor.
SpanOf(lines, a) ==
    {m \in (a + 1)..Len(lines) :
        \A n \in (a + 1)..m : ~HasWord("ISIN:", lines[n]) /\ ~IsSet(IsinMatch(lines[n]))}

\* C21: the balance figures recorded for a scheme come from a closing
\* balance line inside the scheme's own span: a scheme is recorded with
\* figures only when a line with the closing balance marker stands between
\* its anchor and the next ISIN anchor, and units, nav and value are numbers
\* of such a line.
C21_BalanceFromOwnSpan ==
    [][AppendsScheme
       => LET s == cas_data'.schemes[Len(cas_data'.schemes)]
              own == {m \in SpanOf(text, loc.i) :
                         Occurs(<<"Closing", "Unit", "Balance:">>, text[m])}
          IN  \E m \in own :
                 LET figures == {ToFloat(NumericTokens(text[m])[k]) :
                                    k \in 1..Len(NumericTokens(text[m]))}
                 IN  {s.units, s.nav, s.value} \subseteq figures]_vars

\* The AMC of the folio header at line h: the first line with 'Mutual Fund'
\* among the AmcWindow lines after it, optional.
AmcOfHeader(lines, h) ==
    LET found == {m \in (h + 1)..Min(h + AmcWindow, Len(lines)) :
                     Occurs(<<"Mutual", "Fund">>, lines[m])}
    IN  IF found = {} THEN None ELSE Some(lines[SetMin(found)])

\* The AMC of the scheme anchored at line a: that of the last folio header
\* before the anchor, none when no folio header precedes it.
AmcOfAnchor(lines, a) ==
    LET headers == {h \in 1..(a - 1) : IsSet(FolioMatch(lines[h]))}
    IN  IF headers = {} THEN None ELSE AmcOfHeader(lines, SetMax(headers))

\* C22: the AMC recorded on a scheme, and on each of its transactions, is
\* the AMC line found in the lookahead after the scheme's own folio header;
\* under a folio header with no such line the AMC is unset, and not that of
\* an earlier folio.
C22_AmcOfOwnFolio ==
    [][/\ AppendsScheme
          => cas_data'.schemes[Len(cas_data'.schemes)].amc = AmcOfAnchor(text, loc.i)
       /\ (pc = "txns" /\ AppendsTransaction)
          => LET before == {a \in AnchorLines(text) : a < loc.j}
             IN  cas_data'.transactions[Len(cas_data'.transactions)].amc
                    = AmcOfAnchor(text, SetMax(before))]_vars

\* The requests that passed check_rate_limit from the client c in minute m.
PassedUnder(c, m) == {r \in DOMAIN requests : requests[r].passed = Some(<<c, m>>)}

\* The client-minute keys there are.
Keys == {requests[r].client : r \in DOMAIN requests} \X {"12:00", "12:01"}

\* The step is one of check_rate_limit that rejects a request with 429.
Rejects429 ==
    \E r \in DOMAIN requests :
        /\ requests[r].pc = "check_rate_limit"
        /\ requests'[r].status = Some(429)

\* At most RATE_LIMIT_PER_MINUTE requests have passed for every client and
\* minute, and no stored counter is above the limit.
WithinLimit ==
    /\ \A k \in Keys : Cardinality(PassedUnder(k[1], k[2])) <= RATE_LIMIT_PER_MINUTE
    /\ \A k \in DOMAIN request_counts : request_counts[k] <= RATE_LIMIT_PER_MINUTE

Exited(r) == requests[r].pc \in {"returned", "raised"}

\* C24: on every exit path of parse_cas taken after the upload was written
\* to its temporary path, the temporary file is gone when the handler
\* returns or raises.
C24_UploadRemovedOnExit ==
    \A r \in DOMAIN requests :
        (Exited(r) /\ IsSet(requests[r].temp_path))
            => Get(requests[r].temp_path) \notin temp_files

\* The three requests have left the handler after their uploads were saved:
\* one with the JSON or Excel response, one with a parse failure, one with
\* an error of status 500.
C24_Witness ==
    /\ \A r \in DOMAIN requests : Exited(r) /\ IsSet(requests[r].temp_path)
    /\ {requests[r].status : r \in DOMAIN requests} = {Some(200), Some(400), Some(500)}
    /\ temp_files = {}

====
